---- MODULE Spec2Model ----
(***************************************************************************)
(* Shopping cart prototype (cart-prototype): a composite pricing tree      *)
(* (Product leaves, Bundle groups), an ordered pipeline of price           *)
(* strategies, and the Cart that owns both.                                *)
(*                                                                         *)
(* Numbers.  The TypeScript `number` values of the program are modelled as *)
(* exact decimal fractions of any length.  Every constant of the program   *)
(* is a decimal fraction and the program only adds, subtracts, multiplies  *)
(* and rounds, so the arithmetic below gives the exact value of each       *)
(* expression of the source; the binary rounding error of IEEE doubles is  *)
(* not modelled.                                                           *)
(***************************************************************************)
EXTENDS Integers, Sequences, FiniteSets, TLC

----------------------------------------------------------------------------
(* Exact arithmetic on `number` values                                      *)
(*                                                                          *)
(* A value is [neg, mag, exp]: the integer with the base-Base limbs mag     *)
(* (lowest first), negated when neg, times Base^(-exp).  The form is        *)
(* unique: no high zero limb, no low zero limb while exp > 0, and zero is   *)
(* [FALSE, <<>>, 0]; equal values are equal records.                        *)

Base == 10 * 10 * 10 * 10

RECURSIVE TrimHigh(_)
TrimHigh(m) ==
    IF m # <<>> /\ m[Len(m)] = 0 THEN TrimHigh(SubSeq(m, 1, Len(m) - 1)) ELSE m

RECURSIVE Limbs(_)
Limbs(k) == IF k = 0 THEN <<>> ELSE <<k % Base>> \o Limbs(k \div Base)

Limb(m, i) == IF i <= Len(m) THEN m[i] ELSE 0

RECURSIVE MagAddFrom(_, _, _, _)
MagAddFrom(a, b, i, carry) ==
    IF i > Len(a) /\ i > Len(b)
    THEN (IF carry = 0 THEN <<>> ELSE <<carry>>)
    ELSE LET t == Limb(a, i) + Limb(b, i) + carry
         IN  <<t % Base>> \o MagAddFrom(a, b, i + 1, t \div Base)

MagAdd(a, b) == MagAddFrom(a, b, 1, 0)

\* a - b for a >= b
RECURSIVE MagSubFrom(_, _, _, _)
MagSubFrom(a, b, i, borrow) ==
    IF i > Len(a) THEN <<>>
    ELSE LET t == Limb(a, i) - Limb(b, i) - borrow
         IN  <<IF t < 0 THEN t + Base ELSE t>>
             \o MagSubFrom(a, b, i + 1, IF t < 0 THEN 1 ELSE 0)

MagSub(a, b) == TrimHigh(MagSubFrom(a, b, 1, 0))

\* a < b, for magnitudes without high zero limbs
RECURSIVE MagLessFrom(_, _, _)
MagLessFrom(a, b, i) ==
    IF i = 0 THEN FALSE
    ELSE IF a[i] # b[i] THEN a[i] < b[i]
    ELSE MagLessFrom(a, b, i - 1)

MagLess(a, b) ==
    IF Len(a) # Len(b) THEN Len(a) < Len(b) ELSE MagLessFrom(a, b, Len(a))

RECURSIVE MagTimesLimb(_, _, _, _)
MagTimesLimb(a, k, i, carry) ==
    IF i > Len(a) THEN (IF carry = 0 THEN <<>> ELSE <<carry>>)
    ELSE LET t == a[i] * k + carry
         IN  <<t % Base>> \o MagTimesLimb(a, k, i + 1, t \div Base)

\* m * Base^k
RECURSIVE ShiftUp(_, _)
ShiftUp(m, k) == IF k = 0 \/ m = <<>> THEN m ELSE ShiftUp(<<0>> \o m, k - 1)

RECURSIVE MagMulFrom(_, _, _)
MagMulFrom(a, b, i) ==
    IF i > Len(b) THEN <<>>
    ELSE MagAdd(ShiftUp(TrimHigh(MagTimesLimb(a, b[i], 1, 0)), i - 1),
                MagMulFrom(a, b, i + 1))

MagMul(a, b) == MagMulFrom(a, b, 1)

RECURSIVE Normal(_, _, _)
Normal(neg, mag, exp) ==
    LET m == TrimHigh(mag)
    IN  IF m = <<>> THEN [neg |-> FALSE, mag |-> <<>>, exp |-> 0]
        ELSE IF exp > 0 /\ m[1] = 0 THEN Normal(neg, Tail(m), exp - 1)
        ELSE [neg |-> neg, mag |-> m, exp |-> exp]

\* the integer k
Num(k) == Normal(k < 0, Limbs(IF k < 0 THEN -k ELSE k), 0)

Max(i, j) == IF i > j THEN i ELSE j

RAdd(x, y) ==
    LET e == Max(x.exp, y.exp)
        a == ShiftUp(x.mag, e - x.exp)
        b == ShiftUp(y.mag, e - y.exp)
    IN  IF x.neg = y.neg THEN Normal(x.neg, MagAdd(a, b), e)
        ELSE IF MagLess(a, b) THEN Normal(y.neg, MagSub(b, a), e)
        ELSE Normal(x.neg, MagSub(a, b), e)

RNeg(x) == Normal(~x.neg, x.mag, x.exp)

RSub(x, y) == RAdd(x, RNeg(y))

RMul(x, y) == Normal(x.neg # y.neg, MagMul(x.mag, y.mag), x.exp + y.exp)

\* x < y
RLess(x, y) == RSub(x, y).neg

RLeq(x, y) == ~RLess(y, x)

\* the decimal fraction n / 10^k, for 0 <= k and |n| * 1000 within the integers
RECURSIVE Dec(_, _)
Dec(n, k) ==
    IF k = 0 THEN Num(n)
    ELSE IF k % 4 # 0 THEN Dec(n * 10, k + 1)
    ELSE Normal(n < 0, Limbs(IF n < 0 THEN -n ELSE n), k \div 4)

\* Math.min
MathMin(x, y) == IF RLess(y, x) THEN y ELSE x

\* Math.floor: the greatest integer not above x
MathFloor(x) ==
    LET whole == [neg |-> FALSE, mag |-> SubSeq(x.mag, x.exp + 1, Len(x.mag)), exp |-> 0]
    IN  IF x.exp = 0 THEN x
        ELSE IF x.neg THEN RNeg(RAdd(Normal(FALSE, whole.mag, 0), Num(1)))
        ELSE Normal(FALSE, whole.mag, 0)

\* Math.round: the nearest integer, an exact half going towards +infinity
MathRound(x) == MathFloor(RAdd(x, Dec(5, 1)))

----------------------------------------------------------------------------
(* Bounds of the model *)

\* entries of all child sequences together (the cart's and the bundles')
MaxEntries == 2
\* longest strategy list of the Cart
MaxStrategies == 2

----------------------------------------------------------------------------
(* State *)

VARIABLES
    nodes,            \* the CartComponent objects: NodeIds -> object record
    components,       \* Cart.components: sequence of object ids
    priceStrategies,  \* Cart.priceStrategies: sequence of strategy kinds
    customer,         \* Cart.customer
    today,            \* <<month, day>> that new Date() yields
    args,             \* the arguments the caller has chosen (strategy.apply, new Bundle)
    ret               \* the call made last and what it returned

vars == <<nodes, components, priceStrategies, customer, today, args, ret>>

----------------------------------------------------------------------------
(* Data shapes (interfaces.ts) *)

\* CartItem; the optional flags are false when left out
CartItem(id, price, quantity, sale, bonus) ==
    [id |-> id, price |-> price, quantity |-> quantity,
     isSaleItem |-> sale, isEligibleForBonus |-> bonus]

NoItem == CartItem("", Num(0), 0, FALSE, FALSE)

\* Customer; birthday is <<>> when undefined, else <<month, day>> of the Date
Customer(isNew, birthday) == [isNewCustomer |-> isNew, birthday |-> birthday]

\* PriceContext
PriceContext(cust, items, amount) ==
    [customer |-> cust, cartItems |-> items, intermediateAmount |-> amount]

\* An unused slot, a Product and a Bundle of the object store
FreeNode ==
    [kind |-> "free", item |-> NoItem, quantity |-> 0,
     bundleDiscount |-> Num(0), components |-> <<>>]

Product(item) ==
    [kind |-> "product", item |-> item, quantity |-> 0,
     bundleDiscount |-> Num(0), components |-> <<>>]

\* new Bundle(name, quantity, bundleDiscount): nothing is validated
Bundle(quantity, bundleDiscount) ==
    [kind |-> "bundle", item |-> NoItem, quantity |-> quantity,
     bundleDiscount |-> bundleDiscount, components |-> <<>>]

----------------------------------------------------------------------------
(* Array helpers *)

\* Array.prototype.indexOf, 1-based; 0 when absent (-1 in the source)
IndexOf(seq, x) ==
    IF \E i \in 1..Len(seq) : seq[i] = x
    THEN CHOOSE i \in 1..Len(seq) : seq[i] = x /\ \A j \in 1..(i - 1) : seq[j] # x
    ELSE 0

\* splice(index, 1)
RemoveAt(seq, i) == SubSeq(seq, 1, i - 1) \o SubSeq(seq, i + 1, Len(seq))

\* the removal without the test of the index: splice(-1, 1) takes the last
\* element away
RemoveFirstUnchecked(seq, x) ==
    LET i == IndexOf(seq, x)
    IN  IF i > 0 THEN RemoveAt(seq, i) ELSE SubSeq(seq, 1, Len(seq) - 1)

\* components.indexOf(c); if (index > -1) components.splice(index, 1)
RemoveFirst(seq, x) ==
    LET i == IndexOf(seq, x) IN IF i > 0 THEN RemoveAt(seq, i) ELSE seq

----------------------------------------------------------------------------
(* Composite (cart-components.ts) *)

\* objects reachable from the ids of S through at most k child links
RECURSIVE Within(_, _, _)
Within(h, S, k) ==
    IF k = 0 THEN S
    ELSE Within(h, S \cup UNION {{h[n].components[i] : i \in 1..Len(h[n].components)} : n \in S}, k - 1)

Children(h, n) == {h[n].components[i] : i \in 1..Len(h[n].components)}

\* a Bundle below (or at) n that contains itself: getPrice and getAllItems
\* recurse without end there
Cyclic(h, n) ==
    \E m \in Within(h, {n}, Cardinality(DOMAIN h)) :
        m \in Within(h, Children(h, m), Cardinality(DOMAIN h))

\* the sum of the raw leaf prices below seq: nested bundles lose their discount
RECURSIVE SumLeafPrices(_, _, _)
SumLeafPrices(h, seq, i) ==
    IF i > Len(seq) THEN Num(0)
    ELSE RAdd(IF h[seq[i]].kind = "bundle"
              THEN SumLeafPrices(h, h[seq[i]].components, 1)
              ELSE RMul(h[seq[i]].item.price, Num(h[seq[i]].item.quantity)),
              SumLeafPrices(h, seq, i + 1))

\* Product.getPrice / Bundle.getPrice
RECURSIVE getPrice(_, _)
RECURSIVE SumPrices(_, _, _)
SumPrices(h, seq, i) ==
    IF i > Len(seq) THEN Num(0)
    ELSE RAdd(getPrice(h, seq[i]), SumPrices(h, seq, i + 1))

\* getPrice with the discount itself taken as the factor
BundlePriceTimesDiscount(h, n) ==
    LET totalPrice == SumPrices(h, h[n].components, 1)
        discounted == IF RLess(Num(0), h[n].bundleDiscount)
                      THEN RMul(totalPrice, h[n].bundleDiscount)
                      ELSE totalPrice
    IN  RMul(discounted, Num(h[n].quantity))

\* getPrice with the discount taken off once for every unit of the quantity
BundlePricePerUnitDiscount(h, n) ==
    LET totalPrice == SumPrices(h, h[n].components, 1)
        discounted == IF RLess(Num(0), h[n].bundleDiscount)
                      THEN RMul(totalPrice,
                                RSub(Num(1), RMul(h[n].bundleDiscount, Num(h[n].quantity))))
                      ELSE totalPrice
    IN  RMul(discounted, Num(h[n].quantity))

BundlePrice(h, n) ==
    LET totalPrice == SumPrices(h, h[n].components, 1)
        discounted == IF RLess(Num(0), h[n].bundleDiscount)
                      THEN RMul(totalPrice, RSub(Num(1), h[n].bundleDiscount))
                      ELSE totalPrice
    IN  RMul(discounted, Num(h[n].quantity))

\* getPrice that charges nothing for a sale item
ProductPriceUnlessSale(h, n) ==
    IF h[n].item.isSaleItem THEN Num(0)
    ELSE RMul(h[n].item.price, Num(h[n].item.quantity))

ProductPrice(h, n) == RMul(h[n].item.price, Num(h[n].item.quantity))

getPrice(h, n) ==
    IF h[n].kind = "bundle" THEN BundlePrice(h, n) ELSE ProductPrice(h, n)

\* Product.getQuantity / Bundle.getQuantity
getQuantity(h, n) ==
    IF h[n].kind = "bundle" THEN h[n].quantity ELSE h[n].item.quantity

\* Bundle.getAllItems
RECURSIVE getAllItems(_, _)
RECURSIVE ItemsOf(_, _, _)
\* the items gathered from the last child to the first
RECURSIVE ItemsOfReversed(_, _, _)
ItemsOfReversed(h, seq, i) ==
    IF i > Len(seq) THEN <<>>
    ELSE ItemsOfReversed(h, seq, i + 1)
         \o (IF h[seq[i]].kind = "product" THEN <<h[seq[i]].item>>
             ELSE IF h[seq[i]].kind = "bundle" THEN getAllItems(h, seq[i])
             ELSE <<>>)

ItemsOf(h, seq, i) ==
    IF i > Len(seq) THEN <<>>
    ELSE (IF h[seq[i]].kind = "product" THEN <<h[seq[i]].item>>
          ELSE IF h[seq[i]].kind = "bundle" THEN getAllItems(h, seq[i])
          ELSE <<>>)
         \o ItemsOf(h, seq, i + 1)

\* getAllItems with the quantity of every item multiplied by the bundle's
getAllItemsScaled(h, n) ==
    LET items == ItemsOf(h, h[n].components, 1)
    IN  [i \in 1..Len(items) |->
            [items[i] EXCEPT !.quantity = items[i].quantity * h[n].quantity]]

getAllItems(h, n) == ItemsOf(h, h[n].components, 1)

----------------------------------------------------------------------------
(* Strategies (price-strategies.ts) *)

\* Array.prototype.some(item => item.isSaleItem)
HasSaleItems(items) == \E i \in 1..Len(items) : items[i].isSaleItem

\* isBirthday that compares the month only
isBirthdayByMonth(birthday) == birthday[1] = today[1]

\* isBirthday(birthday): month and day of the month equal today's
isBirthday(birthday) == birthday[1] = today[1] /\ birthday[2] = today[2]

\* customer.birthday && isBirthday(customer.birthday)
BirthdayToday(cust) == cust.birthday # <<>> /\ isBirthday(cust.birthday)

\* NewCustomerDiscountStrategy
NewCustomerDiscountPercentage == Dec(5, 2)
maxDiscount == 100

\* apply without the cap of maxDiscount
NewCustomerApplyUncapped(amount, context) ==
    IF ~context.customer.isNewCustomer THEN amount
    ELSE IF HasSaleItems(context.cartItems) THEN amount
    ELSE RSub(amount, RMul(amount, NewCustomerDiscountPercentage))

NewCustomerApply(amount, context) ==
    IF ~context.customer.isNewCustomer THEN amount
    ELSE IF HasSaleItems(context.cartItems) THEN amount
    ELSE LET discount == MathMin(RMul(amount, NewCustomerDiscountPercentage), Num(maxDiscount))
         IN  RSub(amount, discount)

\* BirthdayDiscountStrategy
BirthdayDiscountPercentage == Dec(3, 2)

\* apply without the test for a new customer
BirthdayApplyAlsoNew(amount, context) ==
    IF ~BirthdayToday(context.customer) THEN amount
    ELSE IF HasSaleItems(context.cartItems) THEN amount
    ELSE RSub(amount, RMul(amount, BirthdayDiscountPercentage))

BirthdayApply(amount, context) ==
    IF ~BirthdayToday(context.customer) THEN amount
    ELSE IF context.customer.isNewCustomer THEN amount
    ELSE IF HasSaleItems(context.cartItems) THEN amount
    ELSE RSub(amount, RMul(amount, BirthdayDiscountPercentage))

\* VATStrategy
vatRate == Dec(77, 3)

\* apply that charges no VAT when an item of the list is a sale item
VATApplyUnlessSale(amount, context) ==
    IF HasSaleItems(context.cartItems) THEN amount
    ELSE RMul(amount, RAdd(Num(1), vatRate))

VATApply(amount, context) == RMul(amount, RAdd(Num(1), vatRate))

\* VolumeDiscountStrategy.discountTiers, in array order
discountTiers ==
    << [minQuantity |-> 10, discountPercentage |-> Dec(5, 2)],
       [minQuantity |-> 20, discountPercentage |-> Dec(10, 2)],
       [minQuantity |-> 50, discountPercentage |-> Dec(20, 2)] >>

\* the loop with a tier reached only above its minQuantity
RECURSIVE TierLoopStrict(_, _, _)
TierLoopStrict(quantity, i, applicableDiscount) ==
    IF i > Len(discountTiers) THEN applicableDiscount
    ELSE TierLoopStrict(quantity, i + 1,
                        IF quantity > discountTiers[i].minQuantity
                        THEN discountTiers[i].discountPercentage
                        ELSE applicableDiscount)

\* getDiscountForQuantity: the loop keeps the last tier the quantity reaches
RECURSIVE TierLoop(_, _, _)
TierLoop(quantity, i, applicableDiscount) ==
    IF i > Len(discountTiers) THEN applicableDiscount
    ELSE TierLoop(quantity, i + 1,
                  IF quantity >= discountTiers[i].minQuantity
                  THEN discountTiers[i].discountPercentage
                  ELSE applicableDiscount)

getDiscountForQuantity(quantity) == TierLoop(quantity, 1, Num(0))

\* The Map itemQuantities as its entries <<id, quantity>> in insertion order
MapSet(map, id, q) ==
    IF \E k \in 1..Len(map) : map[k][1] = id
    THEN [k \in 1..Len(map) |-> IF map[k][1] = id THEN <<id, q>> ELSE map[k]]
    ELSE Append(map, <<id, q>>)

MapGet(map, id) ==
    IF \E k \in 1..Len(map) : map[k][1] = id
    THEN map[CHOOSE k \in 1..Len(map) : map[k][1] = id][2]
    ELSE 0

RECURSIVE ItemQuantities(_, _, _)
ItemQuantities(items, i, map) ==
    IF i > Len(items) THEN map
    ELSE ItemQuantities(items, i + 1,
                        MapSet(map, items[i].id, MapGet(map, items[i].id) + items[i].quantity))

\* find that yields the last item with that id
FindLastItem(items, id) ==
    items[CHOOSE i \in 1..Len(items) :
            items[i].id = id /\ \A j \in (i + 1)..Len(items) : items[j].id # id]

\* cartItems.find(i => i.id === itemId): the first item with that id
FindItem(items, id) ==
    items[CHOOSE i \in 1..Len(items) :
            items[i].id = id /\ \A j \in 1..(i - 1) : items[j].id # id]

RECURSIVE TotalDiscount(_, _, _)
TotalDiscount(items, map, k) ==
    IF k > Len(map) THEN Num(0)
    ELSE LET quantity == map[k][2]
             item == FindItem(items, map[k][1])
             applicableDiscount == getDiscountForQuantity(quantity)
             part == IF RLess(Num(0), applicableDiscount)
                     THEN RMul(RMul(item.price, Num(quantity)), applicableDiscount)
                     ELSE Num(0)
         IN  RAdd(part, TotalDiscount(items, map, k + 1))

\* apply that, like the two customer discounts, stands back when an item of
\* the list is a sale item
VolumeApplyUnlessSale(amount, context) ==
    LET itemQuantities == ItemQuantities(context.cartItems, 1, <<>>)
    IN  IF HasSaleItems(context.cartItems) THEN amount
        ELSE RSub(amount, TotalDiscount(context.cartItems, itemQuantities, 1))

VolumeApply(amount, context) ==
    LET itemQuantities == ItemQuantities(context.cartItems, 1, <<>>)
    IN  RSub(amount, TotalDiscount(context.cartItems, itemQuantities, 1))

StrategyKinds == {"NewCustomer", "Birthday", "VAT", "Volume"}

\* strategy.apply(amount, context), by the class of the strategy object
Apply(strategy, amount, context) ==
    CASE strategy = "NewCustomer" -> NewCustomerApply(amount, context)
      [] strategy = "Birthday"    -> BirthdayApply(amount, context)
      [] strategy = "VAT"         -> VATApply(amount, context)
      [] strategy = "Volume"      -> VolumeApply(amount, context)

\* strategy.getDescription(), the percentages written as JavaScript prints
\* them (5, 3, 7.7 and 20)
getDescription(strategy) ==
    CASE strategy = "NewCustomer" -> "Neukunden-Rabatt (5%, max 100 CHF)"
      [] strategy = "Birthday"    -> "Geburtstags-Rabatt (3%)"
      [] strategy = "VAT"         -> "Mehrwertsteuer (7.7%)"
      [] strategy = "Volume"      -> "Mengenrabatt (bis zu 20%)"

----------------------------------------------------------------------------
(* Cart (the Cart class) *)

\* getSubtotal with the sum rounded to cents
getSubtotalRounded(h, comps) ==
    RMul(MathRound(RMul(SumPrices(h, comps, 1), Num(100))), Dec(1, 2))

\* Cart.getSubtotal: reduce over the top-level components, from 0
getSubtotal(h, comps) == SumPrices(h, comps, 1)

\* Cart.getAllCartItems
getAllCartItems(h, comps) == ItemsOf(h, comps, 1)

\* the loop with every strategy handed the subtotal, not the running amount
RECURSIVE StrategyLoopFromSubtotal(_, _, _, _, _)
StrategyLoopFromSubtotal(strategies, k, currentAmount, allItems, cust) ==
    IF k > Len(strategies) THEN <<>>
    ELSE LET context == PriceContext(cust, allItems, currentAmount)
             next == Apply(strategies[k], currentAmount, context)
         IN  << [strategy |-> strategies[k], amount |-> currentAmount,
                 context |-> context, returned |-> next] >>
             \o StrategyLoopFromSubtotal(strategies, k + 1, currentAmount, allItems, cust)

\* The for loop of calculateTotal, as the list of the calls it makes: one
\* entry per strategy.apply call with the context handed in and the value
\* that came back
RECURSIVE StrategyLoop(_, _, _, _, _)
StrategyLoop(strategies, k, currentAmount, allItems, cust) ==
    IF k > Len(strategies) THEN <<>>
    ELSE LET context == PriceContext(cust, allItems, currentAmount)
             next == Apply(strategies[k], currentAmount, context)
         IN  << [strategy |-> strategies[k], amount |-> currentAmount,
                 context |-> context, returned |-> next] >>
             \o StrategyLoop(strategies, k + 1, next, allItems, cust)

\* currentAmount when the loop is left
FinalAmount(start, calls) ==
    IF calls = <<>> THEN start ELSE calls[Len(calls)].returned

\* Math.round(currentAmount * 100) / 100
RoundToCents(currentAmount) == RMul(MathRound(RMul(currentAmount, Num(100))), Dec(1, 2))

\* calculateTotal that applies the VAT after all other strategies
calculateTotalVATLast(h, comps, strategies, cust) ==
    LET IsVAT(strategy) == strategy = "VAT"
        IsOther(strategy) == strategy # "VAT"
        calls == StrategyLoop(SelectSeq(strategies, IsOther) \o SelectSeq(strategies, IsVAT),
                              1, getSubtotal(h, comps), getAllCartItems(h, comps), cust)
    IN  [value |-> RoundToCents(FinalAmount(getSubtotal(h, comps), calls)),
         calls |-> calls]

calculateTotal(h, comps, strategies, cust) ==
    LET calls == StrategyLoop(strategies, 1, getSubtotal(h, comps),
                              getAllCartItems(h, comps), cust)
    IN  [value |-> RoundToCents(FinalAmount(getSubtotal(h, comps), calls)),
         calls |-> calls]

\* getQuantity with a Bundle counting the items below it
RECURSIVE getQuantityDeep(_, _)
RECURSIVE CountDeep(_, _, _)
CountDeep(h, seq, i) ==
    IF i > Len(seq) THEN 0 ELSE getQuantityDeep(h, seq[i]) + CountDeep(h, seq, i + 1)

getQuantityDeep(h, n) ==
    IF h[n].kind = "bundle" THEN h[n].quantity * CountDeep(h, h[n].components, 1)
    ELSE h[n].item.quantity

\* getItemCount with every Bundle counted by the items below it
CountFromDeep(h, comps, i) == CountDeep(h, comps, i)

\* Cart.getItemCount: reduce over the top-level components, from 0
RECURSIVE CountFrom(_, _, _)
CountFrom(h, comps, i) ==
    IF i > Len(comps) THEN 0 ELSE getQuantity(h, comps[i]) + CountFrom(h, comps, i + 1)

getItemCount(h, comps) == Num(CountFrom(h, comps, 1))

\* Cart.getAppliedStrategies
getAppliedStrategies(strategies) ==
    [k \in 1..Len(strategies) |-> getDescription(strategies[k])]

\* Cart.isBirthday(birthday), the private method of the Cart
CartIsBirthday(birthday) == birthday[1] = today[1] /\ birthday[2] = today[2]

\* the forEach of calculateBonusPoints: Math.floor per eligible item
RECURSIVE BonusLoop(_, _, _)
BonusLoop(allItems, i, bonusPoints) ==
    IF i > Len(allItems) THEN bonusPoints
    ELSE BonusLoop(allItems, i + 1,
                   IF allItems[i].isEligibleForBonus
                   THEN RAdd(bonusPoints,
                             MathFloor(RMul(allItems[i].price, Num(allItems[i].quantity))))
                   ELSE bonusPoints)

\* calculateBonusPoints with the birthday factor kept from new customers
calculateBonusPointsNotNew(h, comps, cust) ==
    LET bonusPoints == BonusLoop(getAllCartItems(h, comps), 1, Num(0))
    IN  IF cust.birthday # <<>> /\ CartIsBirthday(cust.birthday) /\ ~cust.isNewCustomer
        THEN RMul(bonusPoints, Num(10))
        ELSE bonusPoints

\* Cart.calculateBonusPoints
calculateBonusPoints(h, comps, cust) ==
    LET bonusPoints == BonusLoop(getAllCartItems(h, comps), 1, Num(0))
    IN  IF cust.birthday # <<>> /\ CartIsBirthday(cust.birthday)
        THEN RMul(bonusPoints, Num(10))
        ELSE bonusPoints

----------------------------------------------------------------------------------------------------------------------------------------
(* The cart as a state machine: the caller constructs components, changes   *)
(* bundles and the cart, registers strategies and asks for prices.          *)

\* The components the caller constructs, in this order
Objects ==
    << Product(CartItem("a", Num(100), 1, FALSE, TRUE)),
       Product(CartItem("b", Num(2), 10, FALSE, FALSE)),
       Bundle(2, Dec(984375, 6)) >>

Today == <<10, 2>>

\* the customer of example.ts: a new customer whose birthday is today
CustomerPool == { Customer(TRUE, Today) }

\* the strategies the caller registers, of those example.ts registers
StrategyPool == { "NewCustomer", "Volume", "VAT" }

\* the call made last: nothing yet or a constructor (Void), a read and the
\* value it returned, a void method with its arguments (Called), or the
\* RangeError of a recursion through a Bundle that contains itself
Void == [op |-> "void", node |-> 0, error |-> FALSE, value |-> <<>>, calls |-> <<>>]

Returned(op, n, value, calls) ==
    [op |-> op, node |-> n, error |-> FALSE, value |-> value, calls |-> calls]

RangeError(op, n) ==
    [op |-> op, node |-> n, error |-> TRUE, value |-> <<>>, calls |-> <<>>]

\* a call of a method that returns nothing: node is the component or 0,
\* value the rest of the call (the owner for add and remove, with the index
\* that indexOf gave, 0 when absent; the strategy for addPriceStrategy)
Called(op, n, detail) ==
    [op |-> op, node |-> n, error |-> FALSE, value |-> detail, calls |-> <<>>]

NodeIds == DOMAIN nodes

Allocated(n) == nodes[n].kind # "free"

\* the slot the next constructed object takes
NextFree == CHOOSE n \in NodeIds : ~Allocated(n) /\ \A m \in 1..(n - 1) : Allocated(m)

\* entries of all child sequences together
RECURSIVE ChildEntries(_)
ChildEntries(n) ==
    IF n = 0 THEN 0 ELSE Len(nodes[n].components) + ChildEntries(n - 1)

Entries == Len(components) + ChildEntries(Len(nodes))

Init ==
    /\ nodes = [n \in DOMAIN Objects |-> FreeNode]
    /\ components = <<>>
    /\ priceStrategies = <<>>
    /\ customer \in CustomerPool
    /\ today = Today
    /\ args = <<>>
    /\ ret = Void

\* new Product(item)
NewProduct(item) ==
    /\ \E n \in NodeIds : ~Allocated(n)
    /\ nodes' = [nodes EXCEPT ![NextFree] = Product(item)]
    /\ ret' = Void
    /\ UNCHANGED <<components, priceStrategies, customer, today, args>>

\* new Bundle(name, quantity, bundleDiscount)
NewBundle(quantity, bundleDiscount) ==
    /\ \E n \in NodeIds : ~Allocated(n)
    /\ nodes' = [nodes EXCEPT ![NextFree] = Bundle(quantity, bundleDiscount)]
    /\ ret' = Void
    /\ UNCHANGED <<components, priceStrategies, customer, today, args>>

\* Bundle.add(component)
BundleAdd(b, c) ==
    /\ nodes[b].kind = "bundle"
    /\ Allocated(c)
    /\ nodes' = [nodes EXCEPT ![b].components = Append(@, c)]
    /\ ret' = Called("add", c, <<b>>)
    /\ UNCHANGED <<components, priceStrategies, customer, today, args>>

\* Bundle.remove(component)
BundleRemove(b, c) ==
    /\ nodes[b].kind = "bundle"
    /\ Allocated(c)
    /\ nodes' = [nodes EXCEPT ![b].components = RemoveFirst(@, c)]
    /\ ret' = Called("remove", c, <<b, IndexOf(nodes[b].components, c)>>)
    /\ UNCHANGED <<components, priceStrategies, customer, today, args>>

\* Cart.addComponent(component)
AddComponent(c) ==
    /\ Allocated(c)
    /\ components' = Append(components, c)
    /\ ret' = Called("addComponent", c, <<0>>)
    /\ UNCHANGED <<nodes, priceStrategies, customer, today, args>>

\* Cart.removeComponent(component)
RemoveComponent(c) ==
    /\ Allocated(c)
    /\ components' = RemoveFirst(components, c)
    /\ ret' = Called("removeComponent", c, <<0, IndexOf(components, c)>>)
    /\ UNCHANGED <<nodes, priceStrategies, customer, today, args>>

\* addPriceStrategy that puts the strategy in front (unshift)
AddPriceStrategyFirst(strategy) ==
    /\ priceStrategies' = <<strategy>> \o priceStrategies
    /\ ret' = Called("addPriceStrategy", 0, <<strategy>>)
    /\ UNCHANGED <<nodes, components, customer, today, args>>

\* Cart.addPriceStrategy(strategy)
AddPriceStrategy(strategy) ==
    /\ priceStrategies' = Append(priceStrategies, strategy)
    /\ ret' = Called("addPriceStrategy", 0, <<strategy>>)
    /\ UNCHANGED <<nodes, components, customer, today, args>>

\* Cart.clearStrategies()
ClearStrategies ==
    /\ priceStrategies' = <<>>
    /\ ret' = Called("clearStrategies", 0, <<>>)
    /\ UNCHANGED <<nodes, components, customer, today, args>>

\* component.getPrice()
GetPrice(n) ==
    /\ Allocated(n)
    /\ ret' = IF Cyclic(nodes, n) THEN RangeError("getPrice", n)
              ELSE Returned("getPrice", n, getPrice(nodes, n), <<>>)
    /\ UNCHANGED <<nodes, components, priceStrategies, customer, today, args>>

CartCyclic == \E i \in 1..Len(components) : Cyclic(nodes, components[i])

\* getSubtotal that keeps the first sum it computed (in args) and returns it
\* from then on
GetSubtotalCached ==
    /\ ret' = IF CartCyclic THEN RangeError("getSubtotal", 0)
              ELSE IF Len(args) = 1 THEN Returned("getSubtotal", 0, args[1], <<>>)
              ELSE Returned("getSubtotal", 0, getSubtotal(nodes, components), <<>>)
    /\ args' = IF CartCyclic \/ Len(args) = 1 THEN args
               ELSE <<getSubtotal(nodes, components)>>
    /\ UNCHANGED <<nodes, components, priceStrategies, customer, today>>

\* Cart.getSubtotal()
GetSubtotal ==
    /\ ret' = IF CartCyclic THEN RangeError("getSubtotal", 0)
              ELSE Returned("getSubtotal", 0, getSubtotal(nodes, components), <<>>)
    /\ UNCHANGED <<nodes, components, priceStrategies, customer, today, args>>

\* calculateTotal that uses its strategies up
CalculateTotalConsuming ==
    /\ ret' = IF CartCyclic THEN RangeError("calculateTotal", 0)
              ELSE LET r == calculateTotal(nodes, components, priceStrategies, customer)
                   IN  Returned("calculateTotal", 0, r.value, r.calls)
    /\ priceStrategies' = <<>>
    /\ UNCHANGED <<nodes, components, customer, today, args>>

\* Cart.calculateTotal()
CalculateTotal ==
    /\ ret' = IF CartCyclic THEN RangeError("calculateTotal", 0)
              ELSE LET r == calculateTotal(nodes, components, priceStrategies, customer)
                   IN  Returned("calculateTotal", 0, r.value, r.calls)
    /\ UNCHANGED <<nodes, components, priceStrategies, customer, today, args>>

\* bundle.getAllItems()
GetAllItems(n) ==
    /\ nodes[n].kind = "bundle"
    /\ ret' = IF Cyclic(nodes, n) THEN RangeError("getAllItems", n)
              ELSE Returned("getAllItems", n, getAllItems(nodes, n), <<>>)
    /\ UNCHANGED <<nodes, components, priceStrategies, customer, today, args>>

\* Cart.getAllCartItems()
GetAllCartItems ==
    /\ ret' = IF CartCyclic THEN RangeError("getAllCartItems", 0)
              ELSE Returned("getAllCartItems", 0, getAllCartItems(nodes, components), <<>>)
    /\ UNCHANGED <<nodes, components, priceStrategies, customer, today, args>>

\* Cart.getItemCount(): no recursion, so no RangeError
GetItemCount ==
    /\ ret' = Returned("getItemCount", 0, getItemCount(nodes, components), <<>>)
    /\ UNCHANGED <<nodes, components, priceStrategies, customer, today, args>>

\* Cart.getAppliedStrategies()
GetAppliedStrategies ==
    /\ ret' = Returned("getAppliedStrategies", 0, getAppliedStrategies(priceStrategies), <<>>)
    /\ UNCHANGED <<nodes, components, priceStrategies, customer, today, args>>

\* Cart.calculateBonusPoints()
CalculateBonusPoints ==
    /\ ret' = IF CartCyclic THEN RangeError("calculateBonusPoints", 0)
              ELSE Returned("calculateBonusPoints", 0,
                            calculateBonusPoints(nodes, components, customer), <<>>)
    /\ UNCHANGED <<nodes, components, priceStrategies, customer, today, args>>

\* The caller's calls, the child sequences and the strategy list kept within
\* the bounds of the model
Next ==
    \/ \E n \in NodeIds :
         /\ ~Allocated(n) /\ n = NextFree /\ Objects[n].kind = "product"
         /\ NewProduct(Objects[n].item)
    \/ \E n \in NodeIds :
         /\ ~Allocated(n) /\ n = NextFree /\ Objects[n].kind = "bundle"
         /\ NewBundle(Objects[n].quantity, Objects[n].bundleDiscount)
    \/ \E b, c \in NodeIds : Entries < MaxEntries /\ BundleAdd(b, c)
    \/ \E b, c \in NodeIds : BundleRemove(b, c)
    \/ \E c \in NodeIds : Entries < MaxEntries /\ AddComponent(c)
    \/ \E c \in NodeIds : RemoveComponent(c)
    \/ \E strategy \in StrategyPool :
         Len(priceStrategies) < MaxStrategies /\ AddPriceStrategy(strategy)
    \/ ClearStrategies
    \/ GetSubtotal
    \/ CalculateTotal
    \/ GetAppliedStrategies

Spec == Init /\ [][Next]_vars

----------------------------------------------------------------------------
(* Pricing of a tree: the caller has built one of a family of trees and     *)
(* asks its nodes for their price.                                          *)
(*   1: Bundle A   2: Bundle B   3, 4, 5: Products x, y, z                  *)

TreeDiscountsA == { Num(0), Dec(5, 2), Dec(1, 1) }
TreeDiscountsB == { Num(0), Dec(1, 1), Dec(5, 1) }
TreeQuantities == { 1, 2 }

TreeItemsX ==
    { CartItem("item1", Num(10), 1, FALSE, FALSE),
      CartItem("item1", Num(50), 1, FALSE, FALSE),
      CartItem("item1", Num(10), 2, FALSE, FALSE) }

TreeItemsY ==
    { CartItem("item2", Num(20), 1, FALSE, FALSE),
      CartItem("item2", Num(30), 1, FALSE, FALSE),
      CartItem("item2", Num(10), 1, TRUE, TRUE) }

TreeItemsZ == { CartItem("item3", Num(30), 1, FALSE, TRUE) }

TreeChildrenA == { <<>>, <<2>>, <<2, 5>>, <<3, 4>> }
TreeChildrenB == { <<>>, <<3>>, <<3, 4>> }

WithChildren(bundle, children) == [bundle EXCEPT !.components = children]

TreeHeaps ==
    { << WithChildren(Bundle(qA, dA), cA), WithChildren(Bundle(qB, dB), cB),
         Product(x), Product(y), Product(z) >> :
        qA \in TreeQuantities, dA \in TreeDiscountsA, cA \in TreeChildrenA,
        qB \in TreeQuantities, dB \in TreeDiscountsB, cB \in TreeChildrenB,
        x \in TreeItemsX, y \in TreeItemsY, z \in TreeItemsZ }

InitTree ==
    /\ nodes \in TreeHeaps
    /\ components = <<>>
    /\ priceStrategies = <<>>
    /\ customer = Customer(FALSE, <<>>)
    /\ today = Today
    /\ args = <<>>
    /\ ret = Void

NextTree == \E n \in NodeIds : GetPrice(n)

SpecTree == InitTree /\ [][NextTree]_vars

----------------------------------------------------------------------------
(* Reading a cart: the caller has filled a cart from one of a family of     *)
(* component structures and calls the read methods of the Cart and of its   *)
(* components.                                                              *)
(*   1: Bundle A   2: Bundle B   3, 4, 5: Products x, y, z                  *)

CartQuantitiesA == { 1, 2 }
CartQuantityB == 3
CartChildrenA == { <<>>, <<2>>, <<3, 2>> }
CartChildrenB == { <<>>, <<5>>, <<4, 5>> }

CartItemX == CartItem("x", Dec(1999, 2), 3, FALSE, TRUE)

CartItemsY ==
    { CartItem("y", Num(10), 10, FALSE, FALSE),
      CartItem("y", Num(10), 10, TRUE, TRUE) }

\* a second leaf with the id of x
CartItemZ == CartItem("x", Dec(5, 1), 1, FALSE, TRUE)

CartHeaps ==
    { << WithChildren(Bundle(qA, Dec(1, 1)), cA), WithChildren(Bundle(CartQuantityB, Dec(5, 1)), cB),
         Product(CartItemX), Product(y), Product(CartItemZ) >> :
        qA \in CartQuantitiesA, cA \in CartChildrenA,
        cB \in CartChildrenB, y \in CartItemsY }

CartComponents == { <<>>, <<1>>, <<1, 4>>, <<3, 1, 4>> }

CartStrategies == { <<>>, <<"Volume", "VAT">> }

CartCustomers ==
    { Customer(FALSE, <<>>), Customer(FALSE, Today),
      Customer(TRUE, Today), Customer(FALSE, <<10, 3>>) }

InitCart ==
    /\ nodes \in CartHeaps
    /\ components \in CartComponents
    /\ priceStrategies \in CartStrategies
    /\ customer \in CartCustomers
    /\ today = Today
    /\ args = <<>>
    /\ ret = Void

NextCart ==
    \/ \E n \in NodeIds : GetPrice(n)
    \/ \E n \in NodeIds : GetAllItems(n)
    \/ GetSubtotal
    \/ CalculateTotal
    \/ GetAllCartItems
    \/ GetItemCount
    \/ GetAppliedStrategies
    \/ CalculateBonusPoints

SpecCart == InitCart /\ [][NextCart]_vars

----------------------------------------------------------------------------
(* Constructing a bundle: the caller constructs a Bundle with a quantity    *)
(* and a discount of their choice, fills it and asks for its price.         *)
(*   1: the Bundle   2: a Product                                           *)

NewQuantities == { 1, 2 }

\* discounts below, in and above the range [0, 1)
NewDiscounts == { Dec(-5, 1), Num(0), Dec(1, 1), Dec(999, 3), Num(1), Dec(15, 1) }

NewItems ==
    { CartItem("item1", Num(100), 1, FALSE, FALSE),
      CartItem("item2", Dec(1999, 2), 3, TRUE, FALSE) }

InitBundle ==
    /\ nodes \in { <<FreeNode, Product(item)>> : item \in NewItems }
    /\ components = <<>>
    /\ priceStrategies = <<>>
    /\ customer = Customer(FALSE, <<>>)
    /\ today = Today
    /\ args \in [quantity : NewQuantities, bundleDiscount : NewDiscounts]
    /\ ret = Void

NextBundle ==
    \/ ~Allocated(1) /\ NewBundle(args.quantity, args.bundleDiscount)
    \/ \E c \in NodeIds : Allocated(1) /\ Entries < MaxEntries /\ BundleAdd(1, c)
    \/ \E c \in NodeIds : Allocated(1) /\ BundleRemove(1, c)
    \/ \E n \in NodeIds : GetPrice(n)

SpecBundle == InitBundle /\ [][NextBundle]_vars

----------------------------------------------------------------------------
(* Changing an attached tree: the cart holds bundle A, A holds the empty    *)
(* bundle B, and the caller goes on adding and removing components and      *)
(* asking for the subtotal and the total.                                   *)
(*   1: Bundle A   2: Bundle B   3: a Product                               *)

\* entries of all child sequences together while the attached tree changes
MaxEditEntries == 3

EditStrategies == { <<>>, <<"Volume", "VAT">> }

InitEdit ==
    /\ nodes = << WithChildren(Bundle(2, Dec(1, 1)), <<2>>),
                  Bundle(1, Dec(5, 1)),
                  Product(CartItem("b", Dec(25, 2), 10, FALSE, FALSE)) >>
    /\ components = <<1>>
    /\ priceStrategies \in EditStrategies
    /\ customer = Customer(FALSE, <<>>)
    /\ today = Today
    /\ args = <<>>
    /\ ret = Void

NextEdit ==
    \/ \E b, c \in NodeIds : Entries < MaxEditEntries /\ BundleAdd(b, c)
    \/ \E b, c \in NodeIds : BundleRemove(b, c)
    \/ \E c \in NodeIds : Entries < MaxEditEntries /\ AddComponent(c)
    \/ \E c \in NodeIds : RemoveComponent(c)
    \/ GetSubtotal
    \/ CalculateTotal

SpecEdit == InitEdit /\ [][NextEdit]_vars

----------------------------------------------------------------------------
(* Pipelines: the caller has filled a small cart, registered one of a few   *)
(* strategy lists and asks for the subtotal and the total.                  *)
(*   1: a Bundle   2, 3: Products                                           *)

PipelineDiscounts == { Num(0), Dec(1, 1), Dec(9, 1) }
PipelineChildren == { <<>>, <<2>>, <<2, 3>> }

PipelineItems ==
    { CartItem("item1", Num(100), 1, FALSE, FALSE),
      CartItem("item1", Num(100), 1, TRUE, FALSE),
      CartItem("v", Num(10), 15, FALSE, FALSE) }

PipelineItemW == CartItem("w", Num(3), 20, FALSE, FALSE)

PipelineHeaps ==
    { << WithChildren(Bundle(1, d), c), Product(i), Product(PipelineItemW) >> :
        d \in PipelineDiscounts, c \in PipelineChildren, i \in PipelineItems }

PipelineComponents == { <<2>>, <<1>>, <<1, 3>>, <<2, 3>> }

\* the orders of example.ts and of the README, and their swaps
Pipelines ==
    { <<"NewCustomer", "Birthday">>, <<"Birthday", "NewCustomer">>,
      <<"Volume", "VAT">>, <<"VAT", "Volume">>,
      <<"NewCustomer", "Birthday", "Volume", "VAT">> }

InitPipeline ==
    /\ nodes \in PipelineHeaps
    /\ components \in PipelineComponents
    /\ priceStrategies \in Pipelines
    /\ customer \in CartCustomers
    /\ today = Today
    /\ args = <<>>
    /\ ret = Void

NextPipeline ==
    \/ GetSubtotal
    \/ CalculateTotal

SpecPipeline == InitPipeline /\ [][NextPipeline]_vars

----------------------------------------------------------------------------
(* One strategy applied to one amount and context: the caller of apply      *)
(* chooses the strategy, the amount and the item list.                      *)

TierQuantities == { 1, 9, 10, 15, 19, 20, 49, 50, 51 }

SingleItems ==
    { CartItem("a", Num(10), q, sale, FALSE) : q \in TierQuantities, sale \in BOOLEAN }
    \cup { CartItem("item1", Num(100), 1, sale, FALSE) : sale \in BOOLEAN }

SmallItems ==
    { CartItem("a", Num(10), 5, FALSE, FALSE),
      CartItem("a", Num(20), 5, FALSE, FALSE),
      CartItem("b", Num(3), 10, FALSE, FALSE),
      CartItem("b", Num(3), 15, TRUE, FALSE) }

ItemLists ==
    { <<>> }
    \cup { <<i>> : i \in SingleItems }
    \cup { <<i, j>> : i, j \in SmallItems }
    \cup { <<i, j, k>> : i, j, k \in SmallItems }

Amounts == { Num(0), Num(100), Num(150), Num(2000), Num(5000), Dec(-375, 1) }

CustomerPoolApply ==
    { Customer(n, b) : n \in BOOLEAN, b \in {<<>>, Today, <<10, 3>>, <<9, 2>>} }

InitApply ==
    /\ nodes = <<>>
    /\ components = <<>>
    /\ priceStrategies = <<>>
    /\ customer \in CustomerPoolApply
    /\ today = Today
    /\ args \in [strategy : StrategyKinds, amount : Amounts, items : ItemLists]
    /\ ret = Void

\* strategy.apply(amount, context)
StrategyApply ==
    /\ ret' = LET calls == StrategyLoop(<<args.strategy>>, 1, args.amount, args.items, customer)
              IN  Returned("apply", 0, calls[1].returned, calls)
    /\ UNCHANGED <<nodes, components, priceStrategies, customer, today, args>>

NextApply == StrategyApply

SpecApply == InitApply /\ [][NextApply]_vars

----------------------------------------------------------------------------
(* Properties *)

\* the sum of a sequence of values, taken from its end
RECURSIVE SumUpTo(_, _)
SumUpTo(values, n) ==
    IF n = 0 THEN Num(0) ELSE RAdd(SumUpTo(values, n - 1), values[n])

SumOf(values) == SumUpTo(values, Len(values))

RAbs(x) == IF x.neg THEN RNeg(x) ELSE x

IsWhole(x) == x.exp = 0

\* v is a whole number of cents, at most half a cent from x
NearestCent(v, x) ==
    /\ IsWhole(RMul(v, Num(100)))
    /\ RLeq(RAbs(RSub(v, x)), Dec(5, 3))

\* x to the cent, an exact half cent going away from zero
HalfAwayFromZero(x) ==
    LET cents == MathFloor(RAdd(RMul(RAbs(x), Num(100)), Dec(5, 1)))
    IN  RMul(IF x.neg THEN RNeg(cents) ELSE cents, Dec(1, 2))

TotalReturned == ret.op = "calculateTotal" /\ ~ret.error

\* C1: calculateTotal starts from the subtotal and calls every registered
\* strategy exactly once, in registration order; the amount handed to a
\* strategy is what the one before it returned (the subtotal for the first),
\* and every strategy gets the same flattened item list and the same customer.
C1_PipelineInOrder ==
    TotalReturned =>
        /\ Len(ret.calls) = Len(priceStrategies)
        /\ \A k \in 1..Len(ret.calls) :
            /\ ret.calls[k].strategy = priceStrategies[k]
            /\ ret.calls[k].amount =
                 IF k = 1 THEN SumOf([i \in 1..Len(components) |-> getPrice(nodes, components[i])])
                 ELSE ret.calls[k - 1].returned
            /\ ret.calls[k].context.intermediateAmount = ret.calls[k].amount
            /\ ret.calls[k].context.cartItems = getAllCartItems(nodes, components)
            /\ ret.calls[k].context.customer = customer
            /\ ret.calls[k].returned =
                 Apply(priceStrategies[k], ret.calls[k].amount, ret.calls[k].context)

\* two different strategies ran, each changed the amount, and an order swap
\* would have given another amount
C1_Witness ==
    /\ TotalReturned
    /\ Len(ret.calls) = 2
    /\ ret.calls[1].strategy = "Volume"
    /\ ret.calls[2].strategy = "VAT"
    /\ ret.calls[1].returned # ret.calls[1].amount
    /\ ret.calls[2].amount = ret.calls[1].returned
    /\ ret.calls[2].returned # ret.calls[2].amount

\* C5: getSubtotal is the unrounded sum of getPrice over the top-level
\* components (0 for an empty cart); with no strategy registered
\* calculateTotal is that subtotal to the nearest cent.
C5_SubtotalAndPlainTotal ==
    /\ ret.op = "getSubtotal" /\ ~ret.error =>
        /\ ret.value = SumOf([i \in 1..Len(components) |-> getPrice(nodes, components[i])])
        /\ components = <<>> => ret.value = Num(0)
    /\ TotalReturned /\ priceStrategies = <<>> =>
        /\ NearestCent(ret.value,
                       SumOf([i \in 1..Len(components) |-> getPrice(nodes, components[i])]))
        /\ components = <<1>> => ret.value = Num(100)

\* a subtotal with a fraction of a cent came back unrounded
C5_Witness ==
    /\ ret.op = "getSubtotal"
    /\ ~ret.error
    /\ components = <<3>>
    /\ ret.value = Dec(625, 3)

\* C6 as claimed: the total is the last running amount rounded once to the
\* nearest cent, an exact half cent going away from zero, also for negative
\* amounts.
C6_HalfAwayFromZero ==
    TotalReturned =>
        ret.value = HalfAwayFromZero(
            FinalAmount(SumOf([i \in 1..Len(components) |-> getPrice(nodes, components[i])]),
                        ret.calls))

PriceReturned == ret.op = "getPrice" /\ ~ret.error

\* the prices of the children of bundle b, in child order
ChildPrices(b) ==
    [i \in 1..Len(nodes[b].components) |-> getPrice(nodes, nodes[b].components[i])]

\* price * quantity of the item of product n, by repeated addition
ItemTotal(n) == SumOf([i \in 1..nodes[n].item.quantity |-> nodes[n].item.price])

ValidBundle(b) ==
    /\ nodes[b].kind = "bundle"
    /\ RLeq(Num(0), nodes[b].bundleDiscount)
    /\ RLess(nodes[b].bundleDiscount, Num(1))
    /\ nodes[b].quantity >= 1

\* the bundle of the README test: discount 0.1 over items priced 50 and 30
IsBundleOf50And30(b) ==
    /\ nodes[b].bundleDiscount = Dec(1, 1)
    /\ nodes[b].quantity = 1
    /\ Len(nodes[b].components) = 2
    /\ \A i \in 1..2 : nodes[nodes[b].components[i]].kind = "product"
    /\ \A i \in 1..2 : nodes[nodes[b].components[i]].item.quantity = 1
    /\ nodes[nodes[b].components[1]].item.price = Num(50)
    /\ nodes[nodes[b].components[2]].item.price = Num(30)

NestedPair ==
    /\ nodes[1].quantity = 1
    /\ nodes[2].quantity = 1
    /\ \A i \in 1..Len(nodes[2].components) :
          nodes[nodes[2].components[i]].kind = "product"

LeafTotalOfB ==
    SumOf([i \in 1..Len(nodes[2].components) |-> ItemTotal(nodes[2].components[i])])

OneMinus(d) == RSub(Num(1), d)

\* the nested-bundles test of the README: inner 0.1 over 10 + 20, outer 0.05
\* over the inner bundle and an item of 30
IsReadmeNesting ==
    /\ nodes[1].components = <<2, 5>>
    /\ nodes[2].components = <<3, 4>>
    /\ nodes[1].bundleDiscount = Dec(5, 2)
    /\ nodes[2].bundleDiscount = Dec(1, 1)
    /\ nodes[3].item.price = Num(10) /\ nodes[3].item.quantity = 1
    /\ nodes[4].item.price = Num(20) /\ nodes[4].item.quantity = 1
    /\ nodes[5].item.price = Num(30) /\ nodes[5].item.quantity = 1

C4_ProductPrice ==
    PriceReturned /\ nodes[ret.node].kind = "product" =>
        /\ ret.value = ItemTotal(ret.node)
        /\ \A m \in NodeIds :
             /\ nodes[m].kind = "product"
             /\ nodes[m].item.price = nodes[ret.node].item.price
             /\ nodes[m].item.quantity = nodes[ret.node].item.quantity
             => getPrice(nodes, m) = ret.value

\* a sale item that earns bonus points costs what the plain item of the same
\* price and quantity costs
C4_Witness ==
    /\ PriceReturned
    /\ nodes[ret.node].kind = "product"
    /\ nodes[ret.node].item.isSaleItem
    /\ nodes[ret.node].item.isEligibleForBonus
    /\ ret.value = Num(10)
    /\ \E m \in NodeIds :
         /\ nodes[m].kind = "product"
         /\ ~nodes[m].item.isSaleItem
         /\ ~nodes[m].item.isEligibleForBonus
         /\ nodes[m].item.price = nodes[ret.node].item.price
         /\ nodes[m].item.quantity = nodes[ret.node].item.quantity

\* an item of the list is a sale item
AnySale(items) == {i \in 1..Len(items) : items[i].isSaleItem} # {}

\* the customer's birthday is set and falls on today's month and day
BirthdayMatches(cust) ==
    /\ Len(cust.birthday) = 2
    /\ cust.birthday[1] = today[1]
    /\ cust.birthday[2] = today[2]

\* C7: NewCustomerDiscountStrategy.apply leaves the amount alone for a
\* customer who is not new and when any item of the list is a sale item;
\* otherwise it returns amount - min(amount x 0.05, 100), so it never takes
\* off more than 100 (item 100: 95, and 100 when the item is on sale).
C7_NewCustomerDiscount ==
    \A k \in 1..Len(ret.calls) :
        LET c == ret.calls[k]
            fivePercent == RMul(c.amount, Dec(5, 2))
        IN  c.strategy = "NewCustomer" =>
              /\ ~c.context.customer.isNewCustomer => c.returned = c.amount
              /\ AnySale(c.context.cartItems) => c.returned = c.amount
              /\ c.context.customer.isNewCustomer /\ ~AnySale(c.context.cartItems) =>
                   /\ c.returned = RSub(c.amount, IF RLeq(fivePercent, Num(100))
                                                  THEN fivePercent ELSE Num(100))
                   /\ RLeq(RSub(c.amount, c.returned), Num(100))
              /\ /\ c.context.customer.isNewCustomer
                 /\ c.amount = Num(100)
                 /\ Len(c.context.cartItems) = 1
                 /\ c.context.cartItems[1].price = Num(100)
                 /\ c.context.cartItems[1].quantity = 1
                 => c.returned = IF c.context.cartItems[1].isSaleItem THEN Num(100) ELSE Num(95)

\* the cap acts: 5% of 5000 would be 250, 100 is taken off
C7_Witness ==
    /\ ret.op = "apply"
    /\ ret.calls[1].strategy = "NewCustomer"
    /\ ret.calls[1].context.customer.isNewCustomer
    /\ ~AnySale(ret.calls[1].context.cartItems)
    /\ ret.calls[1].amount = Num(5000)
    /\ ret.calls[1].returned = Num(4900)

\* C8: BirthdayDiscountStrategy.apply returns amount x (1 - 0.03) exactly when
\* the customer has a birthday on today's month and day, is not a new
\* customer and no item of the list is a sale item; else the amount unchanged.
C8_BirthdayDiscount ==
    \A k \in 1..Len(ret.calls) :
        LET c == ret.calls[k]
            applies == /\ BirthdayMatches(c.context.customer)
                       /\ ~c.context.customer.isNewCustomer
                       /\ ~AnySale(c.context.cartItems)
        IN  c.strategy = "Birthday" =>
              c.returned = IF applies THEN RMul(c.amount, Dec(97, 2)) ELSE c.amount

C8_Witness ==
    /\ ret.op = "apply"
    /\ ret.calls[1].strategy = "Birthday"
    /\ BirthdayMatches(ret.calls[1].context.customer)
    /\ ~ret.calls[1].context.customer.isNewCustomer
    /\ ~AnySale(ret.calls[1].context.cartItems)
    /\ ret.calls[1].amount = Num(100)
    /\ ret.calls[1].returned = Num(97)

\* the tier fraction as the claim states it
ClaimedTier(q) ==
    IF q < 10 THEN Num(0)
    ELSE IF q < 20 THEN Dec(5, 2)
    ELSE IF q < 50 THEN Dec(10, 2)
    ELSE Dec(20, 2)

\* C9: for the summed quantity q of one item id VolumeDiscountStrategy takes
\* the highest tier q reaches: nothing below 10, 5% from 10, 10% from 20,
\* 20% from 50; one item of price 10 and quantity 15 gives 142.5.
C9_VolumeTiers ==
    \A k \in 1..Len(ret.calls) :
        LET c == ret.calls[k]
            item == c.context.cartItems[1]
        IN  c.strategy = "Volume" /\ Len(c.context.cartItems) = 1 =>
              /\ getDiscountForQuantity(item.quantity) = ClaimedTier(item.quantity)
              /\ c.returned = RSub(c.amount,
                                   RMul(RMul(item.price, Num(item.quantity)),
                                        ClaimedTier(item.quantity)))
              /\ c.amount = Num(150) /\ item.price = Num(10) /\ item.quantity = 15
                 => c.returned = Dec(1425, 1)

C9_Witness ==
    /\ ret.op = "apply"
    /\ ret.calls[1].strategy = "Volume"
    /\ Len(ret.calls[1].context.cartItems) = 1
    /\ ret.calls[1].context.cartItems[1].price = Num(10)
    /\ ret.calls[1].context.cartItems[1].quantity = 15
    /\ ret.calls[1].amount = Num(150)
    /\ ret.calls[1].returned = Dec(1425, 1)

\* the ids of an item list, the quantity an id sums to over the whole list,
\* and the price of the first item carrying it
IdsOf(items) == {items[i].id : i \in 1..Len(items)}

RECURSIVE QuantityOfId(_, _, _)
QuantityOfId(items, id, n) ==
    IF n = 0 THEN 0
    ELSE QuantityOfId(items, id, n - 1) + (IF items[n].id = id THEN items[n].quantity ELSE 0)

FirstPriceOfId(items, id) ==
    LET first == CHOOSE i \in 1..Len(items) :
                    items[i].id = id /\ \A j \in 1..Len(items) : items[j].id = id => i <= j
    IN  items[first].price

DeductionOfId(items, id) ==
    LET q == QuantityOfId(items, id, Len(items))
    IN  RMul(RMul(FirstPriceOfId(items, id), Num(q)), ClaimedTier(q))

RECURSIVE SumOverIds(_, _)
SumOverIds(items, ids) ==
    IF ids = {} THEN Num(0)
    ELSE LET id == CHOOSE x \in ids : TRUE
         IN  RAdd(DeductionOfId(items, id), SumOverIds(items, ids \ {id}))

\* C10: VolumeDiscountStrategy.apply sums the quantities per item id over the
\* whole item list; an id's deduction is price x summed quantity x tier
\* fraction with the price of the first item of that id; the result is the
\* amount minus the sum of the deductions.
C10_VolumePerId ==
    \A k \in 1..Len(ret.calls) :
        LET c == ret.calls[k]
        IN  c.strategy = "Volume" =>
              c.returned = RSub(c.amount,
                                SumOverIds(c.context.cartItems, IdsOf(c.context.cartItems)))

\* two leaves of quantity 5 with one id and two prices reach the 10 tier, at
\* the first one's price
C10_Witness ==
    /\ ret.op = "apply"
    /\ ret.calls[1].strategy = "Volume"
    /\ Len(ret.calls[1].context.cartItems) = 2
    /\ ret.calls[1].context.cartItems[1].id = ret.calls[1].context.cartItems[2].id
    /\ ret.calls[1].context.cartItems[1].quantity = 5
    /\ ret.calls[1].context.cartItems[2].quantity = 5
    /\ ret.calls[1].context.cartItems[1].price = Num(20)
    /\ ret.calls[1].context.cartItems[2].price = Num(10)
    /\ ret.calls[1].returned = RSub(ret.calls[1].amount, Num(10))

\* C11: VATStrategy.apply returns amount x 1.077 for every amount, customer
\* and item list, whether or not the customer is new, has a birthday today or
\* an item is a sale item; for one item of 100 with VAT only the total is
\* 107.7.
C11_VATAlways ==
    \A k \in 1..Len(ret.calls) :
        LET c == ret.calls[k]
        IN  c.strategy = "VAT" =>
              /\ c.returned = RAdd(c.amount, RMul(c.amount, Dec(77, 3)))
              /\ c.amount = Num(100) => /\ c.returned = Dec(1077, 1)
                                        /\ RoundToCents(c.returned) = Dec(1077, 1)

\* VAT is charged to a new customer with a birthday today and a sale item
C11_Witness ==
    /\ ret.op = "apply"
    /\ ret.calls[1].strategy = "VAT"
    /\ ret.calls[1].context.customer.isNewCustomer
    /\ BirthdayMatches(ret.calls[1].context.customer)
    /\ ret.calls[1].context.cartItems = <<CartItem("item1", Num(100), 1, TRUE, FALSE)>>
    /\ ret.calls[1].amount = Num(100)
    /\ ret.calls[1].returned = Dec(1077, 1)

\* the items of the product leaves below the first n entries of seq, the
\* leaves of a bundle standing where the bundle stands
RECURSIVE LeafItems(_, _)
LeafItems(seq, n) ==
    IF n = 0 THEN <<>>
    ELSE LeafItems(seq, n - 1)
         \o (IF nodes[seq[n]].kind = "bundle"
             THEN LeafItems(nodes[seq[n]].components, Len(nodes[seq[n]].components))
             ELSE <<nodes[seq[n]].item>>)

CartLeafItems == LeafItems(components, Len(components))

\* the whole units in price x quantity of an item
WholeUnits(item) ==
    LET total == SumOf([i \in 1..item.quantity |-> item.price])
    IN  CHOOSE w \in {Num(k) : k \in 0..100} : RLeq(w, total) /\ RLess(total, RAdd(w, Num(1)))

PointsOf(item) == IF item.isEligibleForBonus THEN WholeUnits(item) ELSE Num(0)

BonusReturned == ret.op = "calculateBonusPoints" /\ ~ret.error

\* C12: calculateBonusPoints is the sum of floor(price x quantity) over the
\* flattened items with isEligibleForBonus, times 10 when the customer's
\* birthday is today, for new customers and with sale items too; the
\* registered strategies play no part in it.
C12_BonusPoints ==
    BonusReturned =>
        LET points == SumOf([i \in 1..Len(CartLeafItems) |-> PointsOf(CartLeafItems[i])])
        IN  ret.value = IF BirthdayMatches(customer) THEN RMul(points, Num(10)) ELSE points

\* a new customer with a birthday today and a sale item in the cart gets ten
\* times 59 + 10 x 10 + 0 points, with strategies registered
C12_Witness ==
    /\ BonusReturned
    /\ customer = Customer(TRUE, Today)
    /\ priceStrategies # <<>>
    /\ components = <<3, 1, 4>>
    /\ nodes[1].components = <<2>>
    /\ nodes[2].components = <<5>>
    /\ nodes[4].item.isSaleItem
    /\ ret.value = Num(1590)

\* C15: getItemCount is the sum of getQuantity over the top-level components
\* only: a Product counts with its item quantity, a Bundle with its own
\* quantity and not with the quantities of what it holds.
C15_ItemCount ==
    ret.op = "getItemCount" =>
        ret.value = SumOf([i \in 1..Len(components) |->
                             Num(IF nodes[components[i]].kind = "bundle"
                                 THEN nodes[components[i]].quantity
                                 ELSE nodes[components[i]].item.quantity)])

\* bundle A of quantity 2 holding 3 + 10 + 1 units counts as 2 beside a
\* product of quantity 10
C15_Witness ==
    /\ ret.op = "getItemCount"
    /\ components = <<1, 4>>
    /\ nodes[1].quantity = 2
    /\ nodes[1].components = <<3, 2>>
    /\ nodes[2].components = <<4, 5>>
    /\ ret.value = Num(12)

Absent(seq, c) == \A i \in 1..Len(seq) : seq[i] # c

\* a step that raises nothing and leaves the child sequences and the
\* strategies as they were, and after which the subtotal and the total are
\* what the call before it returned
NothingChanged ==
    /\ nodes' = nodes
    /\ components' = components
    /\ priceStrategies' = priceStrategies
    /\ customer' = customer
    /\ ~ret'.error
    /\ ret.op = "getSubtotal" /\ ~ret.error =>
         getSubtotal(nodes', components') = ret.value
    /\ ret.op = "calculateTotal" /\ ~ret.error =>
         calculateTotal(nodes', components', priceStrategies', customer').value = ret.value

\* C13: Cart.removeComponent(c) and Bundle.remove(c) with a c that is not in
\* the child sequence raise nothing and leave the child sequence, the
\* strategy list, the subtotal and the total as they were.
C13_RemoveAbsent ==
    [][ /\ ret'.op = "removeComponent" /\ Absent(components, ret'.node) => NothingChanged
        /\ ret'.op = "remove" /\ Absent(nodes[ret'.value[1]].components, ret'.node)
             => NothingChanged ]_vars

\* removeComponent was called with a component that the cart, holding
\* another one, did not hold, with a strategy registered
C13_Witness ==
    /\ ret.op = "removeComponent"
    /\ ret.value = <<0, 0>>
    /\ components # <<>>
    /\ Absent(components, ret.node)
    /\ priceStrategies # <<>>

\* the descriptions as the strategies print them
DescriptionOf(strategy) ==
    IF strategy = "NewCustomer" THEN "Neukunden-Rabatt (5%, max 100 CHF)"
    ELSE IF strategy = "Birthday" THEN "Geburtstags-Rabatt (3%)"
    ELSE IF strategy = "VAT" THEN "Mehrwertsteuer (7.7%)"
    ELSE "Mengenrabatt (bis zu 20%)"

\* C14: addPriceStrategy appends to the strategy list and clearStrategies
\* empties it, and nothing else changes it, so the list is the strategies
\* added since the last clearStrategies in call order; getAppliedStrategies
\* returns their descriptions in that order, and right after clearStrategies
\* calculateTotal is the subtotal to the nearest cent.
C14_StrategyList ==
    [][ /\ ret'.op = "addPriceStrategy" => priceStrategies' = priceStrategies \o ret'.value
        /\ priceStrategies' # priceStrategies =>
             ret'.op \in {"addPriceStrategy", "clearStrategies"}
        /\ ret'.op = "clearStrategies" => priceStrategies' = <<>>
        /\ ret.op = "clearStrategies" /\ ret'.op = "calculateTotal" /\ ~ret'.error =>
             NearestCent(ret'.value,
                         SumOf([i \in 1..Len(components) |-> getPrice(nodes, components[i])]))
        /\ ret'.op = "getAppliedStrategies" =>
             /\ Len(ret'.value) = Len(priceStrategies)
             /\ \A k \in 1..Len(priceStrategies) :
                  ret'.value[k] = DescriptionOf(priceStrategies[k]) ]_vars

\* two strategies were added, the volume discount first, and
\* getAppliedStrategies lists them in that order
C14_Witness ==
    /\ ret.op = "getAppliedStrategies"
    /\ priceStrategies = <<"Volume", "VAT">>
    /\ ret.value = <<"Mengenrabatt (bis zu 20%)", "Mehrwertsteuer (7.7%)">>

\* the parents of object n: the cart (0) and the bundles that hold it
ParentsOf(n) ==
    {p \in {0} : ~Absent(components, n)}
    \cup {b \in NodeIds : ~Absent(nodes[b].components, n)}

\* the bundles found by following child links from bundle b
RECURSIVE BelowIn(_, _)
BelowIn(S, k) ==
    IF k = 0 THEN S
    ELSE BelowIn(S \cup {n \in NodeIds : \E b \in S : ~Absent(nodes[b].components, n)}, k - 1)

ContainsItself(b) ==
    b \in BelowIn({n \in NodeIds : ~Absent(nodes[b].components, n)}, Cardinality(NodeIds))

\* no bundle lies below itself and no object has two parents
IsTree ==
    /\ \A b \in NodeIds : ~ContainsItself(b)
    /\ \A n \in NodeIds : Cardinality(ParentsOf(n)) <= 1

\* C17 as claimed: in every state reached through Bundle.add, Bundle.remove,
\* Cart.addComponent and Cart.removeComponent the components form a tree: no
\* Bundle contains itself, directly or through other bundles, and no
\* component is a child of two parents.
C17_AlwaysATree == IsTree

\* C18 as claimed: no Bundle has a discount outside [0, 1): the constructor
\* rejects or clamps a discount below 0 or of 1 and more, so no price is
\* computed from such a discount.
C18_DiscountInRange ==
    \A b \in NodeIds :
        nodes[b].kind = "bundle" =>
            /\ RLeq(Num(0), nodes[b].bundleDiscount)
            /\ RLess(nodes[b].bundleDiscount, Num(1))

\* the price of object n and the sum of the prices of the first k entries of
\* seq, from the tree as it stands
RECURSIVE PriceOfNode(_)
RECURSIVE PriceOfFirst(_, _)
PriceOfFirst(seq, k) ==
    IF k = 0 THEN Num(0) ELSE RAdd(PriceOfFirst(seq, k - 1), PriceOfNode(seq[k]))

PriceOfNode(n) ==
    IF nodes[n].kind = "bundle"
    THEN RMul(RMul(PriceOfFirst(nodes[n].components, Len(nodes[n].components)),
                   OneMinus(nodes[n].bundleDiscount)),
              Num(nodes[n].quantity))
    ELSE ItemTotal(n)

\* C19: after any adds and removes on the cart and on bundles attached to it,
\* also on a bundle nested in an attached bundle, getSubtotal and
\* calculateTotal return the values of the tree as it stands: the subtotal is
\* the sum over the current tree, and calculateTotal feeds that subtotal and
\* the current items to its strategies.
C19_NeverStale ==
    /\ ret.op = "getSubtotal" /\ ~ret.error =>
         ret.value = PriceOfFirst(components, Len(components))
    /\ TotalReturned =>
         /\ \A k \in 1..Len(ret.calls) : ret.calls[k].context.cartItems = CartLeafItems
         /\ ret.calls # <<>> => ret.calls[1].amount = PriceOfFirst(components, Len(components))
         /\ NearestCent(ret.value,
                         FinalAmount(PriceOfFirst(components, Len(components)), ret.calls))

\* bundle B, empty when A holding it was put into the cart, has got a product
\* since, and the subtotal counts it: 0.25 x 10 x 0.5 x 0.9 x 2
C19_Witness ==
    /\ ret.op = "getSubtotal"
    /\ ~ret.error
    /\ components = <<1>>
    /\ nodes[1].components = <<2>>
    /\ nodes[2].components = <<3>>
    /\ ret.value = Dec(225, 2)

\* the objects of the cart: its components and all that lies below them
InCart == BelowIn({n \in NodeIds : ~Absent(components, n)}, Cardinality(NodeIds))

\* every entry is the item of a Product
OnlyProductItems(items) ==
    \A i \in 1..Len(items) :
        \E n \in NodeIds : nodes[n].kind = "product" /\ nodes[n].item = items[i]

\* C20: getAllCartItems and Bundle.getAllItems return one entry per Product
\* leaf of the tree, depth first in child order, the items of a bundle
\* standing where the bundle stands among its siblings; a Bundle gives no
\* entry of its own and an empty Bundle gives none at all.
C20_FlattenOrder ==
    /\ ret.op = "getAllCartItems" /\ ~ret.error =>
         /\ ret.value = CartLeafItems
         /\ OnlyProductItems(ret.value)
         /\ IsTree =>
              Len(ret.value) = Cardinality({n \in InCart : nodes[n].kind = "product"})
         /\ components = <<3, 1, 4>> /\ nodes[1].components = <<2>> =>
              /\ nodes[2].components = <<>> => ret.value = <<nodes[3].item, nodes[4].item>>
              /\ nodes[2].components = <<5>> =>
                   ret.value = <<nodes[3].item, nodes[5].item, nodes[4].item>>
    /\ ret.op = "getAllItems" /\ ~ret.error =>
         /\ ret.value = LeafItems(nodes[ret.node].components, Len(nodes[ret.node].components))
         /\ OnlyProductItems(ret.value)
         /\ nodes[ret.node].components = <<>> => ret.value = <<>>
         /\ ret.node = 1 /\ nodes[1].components = <<3, 2>> /\ nodes[2].components = <<4, 5>> =>
              ret.value = <<nodes[3].item, nodes[4].item, nodes[5].item>>

\* the cart holds x, bundle A and y; A holds bundle B, B holds z: the items
\* are x, z, y
C20_Witness ==
    /\ ret.op = "getAllCartItems"
    /\ ~ret.error
    /\ IsTree
    /\ components = <<3, 1, 4>>
    /\ nodes[1].components = <<2>>
    /\ nodes[2].components = <<5>>
    /\ ret.value = <<CartItemX, CartItemZ, nodes[4].item>>

\* the calls of the pipeline in which the named strategy returned another
\* amount than it was handed
ChangedBy(strategy) ==
    {k \in 1..Len(ret.calls) :
        ret.calls[k].strategy = strategy /\ ret.calls[k].returned # ret.calls[k].amount}

\* C21: NewCustomerDiscountStrategy and BirthdayDiscountStrategy never both
\* change the amount: in a pipeline that holds both, in either order, at most
\* one of them returns another value than it was handed, for every customer
\* and cart.
C21_NeverBothDiscounts ==
    TotalReturned => ChangedBy("NewCustomer") = {} \/ ChangedBy("Birthday") = {}

\* a new customer with a birthday today and no sale item: the birthday
\* strategy ran first and left the amount alone, the new customer discount
\* came off
C21_Witness ==
    /\ TotalReturned
    /\ priceStrategies = <<"Birthday", "NewCustomer">>
    /\ customer = Customer(TRUE, Today)
    /\ ~AnySale(ret.calls[1].context.cartItems)
    /\ ChangedBy("Birthday") = {}
    /\ ChangedBy("NewCustomer") = {2}

\* the subtotal of the cart and what the volume discount takes off, from the
\* tree as it stands
SubtotalNow == PriceOfFirst(components, Len(components))

VolumeDeductionNow == SumOverIds(CartLeafItems, IdsOf(CartLeafItems))

WithVAT(x) == RAdd(x, RMul(x, Dec(77, 3)))

\* C23: the total depends on the order of the strategies: when the volume
\* discount takes a non-zero D off a cart of subtotal S, [Volume, VAT] ends
\* at (S - D) x 1.077 and [VAT, Volume] at S x 1.077 - D, and these two
\* unrounded amounts differ.
C23_OrderMatters ==
    TotalReturned /\ VolumeDeductionNow # Num(0) =>
        LET final == FinalAmount(SubtotalNow, ret.calls)
            discountFirst == WithVAT(RSub(SubtotalNow, VolumeDeductionNow))
            vatFirst == RSub(WithVAT(SubtotalNow), VolumeDeductionNow)
        IN  /\ discountFirst # vatFirst
            /\ priceStrategies = <<"Volume", "VAT">> => final = discountFirst
            /\ priceStrategies = <<"VAT", "Volume">> => final = vatFirst

\* the item of price 10 and quantity 15: VAT first gives 150 x 1.077 - 7.5 =
\* 154.05, where the discount first would give 153.4725
C23_Witness ==
    /\ TotalReturned
    /\ priceStrategies = <<"VAT", "Volume">>
    /\ components = <<2>>
    /\ nodes[2].item.quantity = 15
    /\ VolumeDeductionNow = Dec(75, 1)
    /\ FinalAmount(SubtotalNow, ret.calls) = Dec(15405, 2)
    /\ WithVAT(RSub(SubtotalNow, VolumeDeductionNow)) = Dec(1534725, 4)

\* the ids, prices and quantities of an item list, the flags struck out
Plain(items) ==
    [i \in 1..Len(items) |->
        CartItem(items[i].id, items[i].price, items[i].quantity, FALSE, FALSE)]

\* C22: what VolumeDiscountStrategy takes off depends on the ids, prices and
\* quantities of the flattened items only: it is the same for an item at top
\* level and inside a bundle of any discount, with and without a sale item,
\* for a new customer and for any other.
C22_VolumeOnRawItems ==
    TotalReturned =>
        \A k \in 1..Len(ret.calls) :
            ret.calls[k].strategy = "Volume" =>
                RSub(ret.calls[k].amount, ret.calls[k].returned)
                  = SumOverIds(Plain(CartLeafItems), IdsOf(CartLeafItems))

\* a new customer, a sale item and the item of quantity 20 inside a bundle of
\* discount 0.9: the volume discount takes off 3 x 20 x 0.1 = 6, as it does
\* for that item at top level
C22_Witness ==
    /\ TotalReturned
    /\ priceStrategies = <<"Volume", "VAT">>
    /\ customer.isNewCustomer
    /\ components = <<1>>
    /\ nodes[1].components = <<2, 3>>
    /\ nodes[1].bundleDiscount = Dec(9, 1)
    /\ nodes[2].item.isSaleItem
    /\ RSub(ret.calls[1].amount, ret.calls[1].returned) = Num(6)
    /\ VolumeApply(Num(60), PriceContext(Customer(FALSE, <<>>), <<nodes[3].item>>, Num(60)))
         = Num(54)

\* every item has a price of at least 0 and a quantity of at least 1, every
\* bundle a quantity of at least 1 and a discount in [0, 1)
ValidInputs ==
    \A n \in NodeIds :
        /\ nodes[n].kind = "bundle" => ValidBundle(n)
        /\ nodes[n].kind = "product" =>
               RLeq(Num(0), nodes[n].item.price) /\ nodes[n].item.quantity >= 1

SubtotalReturned == ret.op = "getSubtotal" /\ ~ret.error

\* C24: for every tree of items with price >= 0 and quantity >= 1 and bundles
\* with quantity >= 1 and discount in [0,1), getPrice() of every node and
\* Cart.getSubtotal() are not negative.
C24_PricesNotNegative ==
    ValidInputs /\ (PriceReturned \/ SubtotalReturned) => RLeq(Num(0), ret.value)

\* the price of bundle B, of quantity 3 and discount 0.5, over the items y
\* and z: (100 + 0.5) x 0.5 x 3 = 150.75
C24_Witness ==
    /\ ValidInputs
    /\ PriceReturned
    /\ ret.node = 2
    /\ nodes[2].quantity = 3
    /\ nodes[2].bundleDiscount = Dec(5, 1)
    /\ nodes[2].components = <<4, 5>>
    /\ ret.value = Dec(15075, 2)

\* the same components with every bundle's quantity set to 1
QuantityOne ==
    [n \in NodeIds |->
        IF nodes[n].kind = "bundle" THEN [nodes[n] EXCEPT !.quantity = 1] ELSE nodes[n]]

\* what the Volume calls of a calculateTotal took off, call by call
VolumeDeductions(calls) ==
    [k \in { j \in 1..Len(calls) : calls[j].strategy = "Volume" } |->
        RSub(calls[k].amount, calls[k].returned)]

\* C25: a bundle's quantity scales its price but not its flattened items:
\* getAllItems() returns each leaf item once with its own quantity, so that
\* what VolumeDiscountStrategy takes off and calculateBonusPoints() are as
\* for quantity 1, while getPrice() of the bundle is quantity times its
\* price at quantity 1.
C25_QuantityScalesPriceOnly ==
    /\ ret.op = "getAllItems" /\ ~ret.error =>
           /\ ret.value = LeafItems(nodes[ret.node].components,
                                    Len(nodes[ret.node].components))
           /\ ret.value = getAllItems(QuantityOne, ret.node)
    /\ ret.op = "getAllCartItems" /\ ~ret.error =>
           /\ ret.value = CartLeafItems
           /\ ret.value = getAllCartItems(QuantityOne, components)
    /\ BonusReturned =>
           ret.value = calculateBonusPoints(QuantityOne, components, customer)
    /\ TotalReturned =>
           /\ VolumeDeductions(ret.calls)
                = VolumeDeductions(
                      calculateTotal(QuantityOne, components, priceStrategies, customer).calls)
           /\ \A k \in DOMAIN VolumeDeductions(ret.calls) :
                  VolumeDeductions(ret.calls)[k]
                    = SumOverIds(CartLeafItems, IdsOf(CartLeafItems))
    /\ PriceReturned /\ nodes[ret.node].kind = "bundle" =>
           ret.value = RMul(Num(nodes[ret.node].quantity),
                            getPrice([nodes EXCEPT ![ret.node].quantity = 1], ret.node))

\* bundle B of quantity 3 hands out y and z once each, with their own
\* quantities 10 and 1
C25_Witness ==
    /\ ret.op = "getAllItems"
    /\ ~ret.error
    /\ ret.node = 2
    /\ nodes[2].quantity = 3
    /\ nodes[2].components = <<4, 5>>
    /\ ret.value = <<nodes[4].item, nodes[5].item>>
    /\ ret.value[1].quantity = 10
    /\ ret.value[2].quantity = 1
    /\ getPrice(nodes, 2) = RMul(Num(3), getPrice(QuantityOne, 2))
    /\ getPrice(nodes, 2) # getPrice(QuantityOne, 2)

\* C26 as claimed: for every cart built from valid inputs and every sequence
\* of the reference rules, the running amount after each rule and the value
\* returned by calculateTotal() are not negative.
C26_NeverNegative ==
    ValidInputs /\ TotalReturned =>
        /\ \A k \in 1..Len(ret.calls) : RLeq(Num(0), ret.calls[k].returned)
        /\ RLeq(Num(0), ret.value)

====
